---------------------------- MODULE Spec2Model ----------------------------
(***************************************************************************)
(* State-machine model of the SHARAD surface-echo pipeline                 *)
(* (utils.py: calibration, get_pik, get_aux, get_srf, inline_rsr; raw.py:  *)
(* the three readers).                                                     *)
(*                                                                         *)
(* Numbers.  A float is one of                                             *)
(*   NaN, Zero, NegInf, Pos(e)   linear values; Pos(e) is the positive     *)
(*                               number p with e = 2000*log10(p)           *)
(*   Db(v)                       a finite decibel value, v in 1/100 dB     *)
(* so that 10*log10(Pos(e)) = Db(e \div 2) and 10**(Db(v)/20) = Pos(v).    *)
(*                                                                         *)
(* Indexing follows the numpy the code was written for (Python 2 era):     *)
(* integral floats are accepted as indices, a slice is clamped to the      *)
(* array, a negative slice bound counts from the end, an integer index     *)
(* outside the axis raises IndexError and max() of an empty slice raises   *)
(* ValueError.  Arrays are 0-based in the code and stored here as          *)
(* sequences, index k of the code at position k+1.                         *)
(***************************************************************************)
EXTENDS Integers, Sequences, FiniteSets

\* ------------------------------------------------------------------ bounds
\* along-track length of the waveform matrix (rpb.shape[1])
Cols == 2
\* delay samples of the waveform matrix (rpb.shape[0]; 3600 in read_rpb)
Rows == 5
\* largest number of records in the pick table
MaxPik == 2
\* largest number of native telemetry samples (aux.UTC.size)
MaxM == 4

\* --------------------------------------------------------- program constants
\* abs_calib = -142.43 dB
AbsCalib == -14243
\* 20*log10(8*pi) = 28.00 dB
EightPiDb == 2800
\* pdb < -200
BandLo == -20000
\* pdb > 10
BandHi == 1000
\* rpb[z-2:z+2, x]
HalfWindow == 2
\* splrep's default degree k=3: it raises unless m > k
SplineOrder == 3

\* ------------------------------------------------------------------ floats
NaN == [t |-> "nan"]
Zero == [t |-> "zero"]
NegInf == [t |-> "-inf"]
Pos(e) == [t |-> "pos", e |-> e]
Db(v) == [t |-> "db", v |-> v]

\* a <= b on raw (linear, non-negative) values
RawLeq(a, b) ==
    \/ a.t = "zero"
    \/ a.t = "pos" /\ b.t = "pos" /\ a.e <= b.e

\* ndarray.max() of a non-empty set of raw values
RawMax(S) == CHOOSE m \in S : \A w \in S : RawLeq(w, m)

\* np.round on a value given in halves: round half to even
NpRound2(h2) ==
    LET q == h2 \div 2
    IN  IF h2 % 2 = 0 THEN q
        ELSE IF q % 2 = 0 THEN q ELSE q + 1

\* ------------------------------------------------------------------ arrays
Shape0(m) == Cardinality({p[1] : p \in DOMAIN m})
Shape1(m) == Cardinality({p[2] : p \in DOMAIN m})

\* a slice bound k on an axis of length n
SliceBound(k, n) ==
    IF k < 0 THEN (IF k + n < 0 THEN 0 ELSE k + n)
    ELSE IF k > n THEN n ELSE k

\* an integer index k on an axis of length n is accepted
IndexOk(k, n) == k >= -n /\ k < n
IndexOf(k, n) == IF k < 0 THEN k + n ELSE k

\* the rows a[lo:hi] selects on an axis of length n
SliceRows(lo, hi, n) ==
    {r \in 0..(n - 1) : SliceBound(lo, n) <= r /\ r < SliceBound(hi, n)}

\* faulty variant: the window taken closed, rpb[z-2:z+3, ...]
WindowRowsClosed(z, n) == SliceRows(z - HalfWindow, z + HalfWindow + 1, n)

\* the window of get_pik for a delay sample z: rpb[z-2:z+2, ...]
WindowRows(z, n) == SliceRows(z - HalfWindow, z + HalfWindow, n)

\* try: rpb[z-2:z+2, val].max()  except: nan
PikValue(m, z, val) ==
    LET rows == WindowRows(z, Shape0(m))
    IN  IF ~IndexOk(val, Shape1(m)) \/ rows = {} THEN NaN
        ELSE RawMax({m[<<r, IndexOf(val, Shape1(m))>>] : r \in rows})

\* z = np.round(pik.delay_pixel)-1 ; x = pik.frame-1
PikZ(rec) == NpRound2(rec.delay_pixel2) - 1
PikX(rec) == rec.frame - 1

\* faulty variant: out sized by the pick table, np.empty(np.size(x))
OutLenPicks(m, xs) == Len(xs)

\* length of out = np.empty(rpb.shape[1])
OutLen(m, xs) == Shape1(m)

\* out[x] = echo raises IndexError when an index is outside out
ScatterOk(n, xs) == \A j \in 1..Len(xs) : IndexOk(xs[j], n)

\* faulty variant: the first record written at an index is kept
ScatterPickFirst(hits) == CHOOSE j \in hits : \A h \in hits : j <= h

\* the record whose value out[x] = echo leaves at index k: the last one
ScatterPick(hits) == CHOOSE j \in hits : \A h \in hits : h <= j

\* out[x] = echo on the fresh array out0
Scatter(out0, xs, ech) ==
    [k \in 1..Len(out0) |->
        LET hits == {j \in 1..Len(xs) : IndexOf(xs[j], Len(out0)) = k - 1}
        IN  IF hits = {} THEN out0[k] ELSE ech[ScatterPick(hits)]]

\* ------------------------------------------------------------- calibration
\* faulty variant: zeros are not screened before the logarithm
ZeroScreenOff(v) == v

\* val[np.where(val == 0)] = np.nan
ZeroScreen(v) == IF v = Zero THEN NaN ELSE v

\* 10*np.log10(val), elementwise
Log10x10(v) ==
    IF v.t = "pos" THEN Db(v.e \div 2)
    ELSE IF v.t = "zero" THEN NegInf
    ELSE NaN

\* the default rng = False of calibration: no range supplied
NoRange == <<>>

At(s, k) == IF Len(s) = 1 THEN s[1] ELSE s[k]

\* 0 if rng is False else 20*np.log10(8*np.pi*rng), at index k
GeometricLoss(r, k) == IF r = NoRange THEN 0 ELSE EightPiDb + At(r, k)

\* val + abs_calib + geometric_loss, elementwise
AddDb(v, g) == IF v.t = "db" THEN Db(v.v + g) ELSE v

\* whether val and rng broadcast together
Broadcastable(val, r) ==
    \/ r = NoRange
    \/ Len(r) = Len(val) \/ Len(r) = 1 \/ Len(val) = 1

BroadcastLen(val, r) ==
    IF r = NoRange \/ Len(r) = 1 THEN Len(val)
    ELSE Len(r)

\* out of calibration(val, rng, abs_calib)
Calibration(val, r, ac) ==
    [k \in 1..BroadcastLen(val, r) |->
        AddDb(Log10x10(ZeroScreen(At(val, k))),
              ac + GeometricLoss(r, k))]

\* faulty variant: pdb <= -200 screened
ScreenLowInclusive(v) ==
    IF v.t = "-inf" \/ (v.t = "db" /\ v.v <= BandLo) THEN NaN ELSE v

\* pdb[np.where(pdb < -200)] = np.nan
ScreenLow(v) == IF v.t = "-inf" \/ (v.t = "db" /\ v.v < BandLo) THEN NaN ELSE v

\* pdb[np.where(pdb > 10)] = np.nan
ScreenHigh(v) == IF v.t = "db" /\ v.v > BandHi THEN NaN ELSE v

\* amp = 10**(pdb/20.)
Amplitude(v) ==
    IF v.t = "db" THEN Pos(v.v)
    ELSE IF v.t = "-inf" THEN Zero
    ELSE NaN

\* ------------------------------------------------------------- telemetry
\* faulty variant: an interpolation that accepts any number of samples
SplrepAny(m) == TRUE

\* splrep(x, y, s=0) accepts m native samples
SplrepOk(m) == m > SplineOrder

\* faulty variant: inline_rsr hands its own save argument on
InlineSrfSavePass(s) == s

\* the save argument inline_rsr passes to get_srf
InlineSrfSave(s) == TRUE

\* ------------------------------------------------------------------ inputs
\* frame numbers are 1-based (x = frame-1); Cols + 1 is a frame past the matrix
Frames == 1..(Cols + 1)
\* delay pixels in halves: z = -1, 1, 2, 3 (ties 2.5 and 3.5 included),
\* z = Rows-1 (window partly past the last row), z = Rows+2 (wholly past)
DelayPixels2 == {1, 5, 6, 7, 2 * Rows, 2 * Rows + 6}
PickRecords == [frame : Frames, delay_pixel2 : DelayPixels2]
PickTables == UNION {[1..n -> PickRecords] : n \in 0..MaxPik}
ShortTables == UNION {[1..n -> PickRecords] : n \in 0..1}

\* column 0 and columns >= 2 carry power rising (falling) with the delay
\* sample; column 1 is all zero
RisingMatrix ==
    [p \in (0..(Rows - 1)) \X (0..(Cols - 1)) |->
        IF p[2] = 1 THEN Zero ELSE Pos(2 * (1635 + p[1] + p[2]))]
FallingMatrix ==
    [p \in (0..(Rows - 1)) \X (0..(Cols - 1)) |->
        IF p[2] = 1 THEN Zero ELSE Pos(2 * (-19361 - p[1] - p[2]))]
Matrices == {RisingMatrix, FallingMatrix}

\* ranges (as 2000*log10 of metres): about 252.4 km
Ranges == {10804, 10806}
\* what np.empty may hold
Garbage == {Zero, Pos(0), NaN}
Fails == {"none", "aux", "rpb", "pik"}
RawInputs == {Zero, Pos(0), Pos(-38722)}

VARIABLES
    entry, save, fail, rpb_file, pik_file, aux_M, aux_range, arg_rng, arg_abs,
    pc, srf_save, aux, x, z, i, echo, pik, pdb, amp, ret, files, run, first

inputs == <<entry, save, fail, rpb_file, pik_file, aux_M, aux_range,
            arg_rng, arg_abs>>
locals == <<srf_save, aux, x, z, i, echo, pik, pdb, amp, ret>>
vars == <<inputs, pc, locals, files, run, first>>

InitLocals ==
    /\ pc = "start"
    /\ srf_save = FALSE
    /\ aux = <<>>
    /\ x = <<>>
    /\ z = <<>>
    /\ i = 0
    /\ echo = <<>>
    /\ pdb = <<>>
    /\ amp = <<>>
    /\ ret = <<>>
    /\ files = {}
    /\ run = 1
    /\ first = <<>>

\* an orbit with a healthy telemetry file, any pick table
InitPicks ==
    /\ entry = "get_srf"
    /\ save = FALSE
    /\ fail = "none"
    /\ rpb_file \in Matrices
    /\ pik_file \in PickTables
    /\ aux_M = MaxM
    /\ aux_range \in Ranges
    /\ arg_rng = NoRange
    /\ arg_abs = AbsCalib
    /\ pik = <<>>

\* an orbit with any telemetry size, any failing file, either entry point
InitFaults ==
    /\ entry \in {"get_srf", "inline_rsr"}
    /\ save \in BOOLEAN
    /\ fail \in Fails
    /\ rpb_file \in Matrices
    /\ pik_file \in ShortTables
    /\ aux_M \in 0..MaxM
    /\ aux_range \in Ranges
    /\ arg_rng = NoRange
    /\ arg_abs = AbsCalib
    /\ pik = <<>>

\* a direct call of calibration(val, rng=..., abs_calib=...)
InitCalibration ==
    /\ entry = "calibration"
    /\ save = FALSE
    /\ fail = "none"
    /\ rpb_file = RisingMatrix
    /\ pik_file = <<>>
    /\ aux_M = MaxM
    /\ aux_range = 10804
    /\ \E n \in 1..Cols :
        /\ pik \in [1..n -> RawInputs]
        /\ arg_rng \in {NoRange} \cup {[k \in 1..n |-> r] : r \in Ranges}
    /\ arg_abs \in {AbsCalib, 0}

Init ==
    /\ InitLocals
    /\ (InitPicks \/ InitFaults \/ InitCalibration)

Raise ==
    /\ pc' = "raised"

\* get_srf(orbit, save) called by the user
CallGetSrf ==
    /\ pc = "start"
    /\ entry = "get_srf"
    /\ pc' = "get_aux"
    /\ srf_save' = save
    /\ UNCHANGED <<inputs, aux, x, z, i, echo, pik, pdb, amp, ret, files, run, first>>

\* inline_rsr: srf = get_srf(orbit, save=True)
CallInlineRsr ==
    /\ pc = "start"
    /\ entry = "inline_rsr"
    /\ pc' = "get_aux"
    /\ srf_save' = InlineSrfSave(save)
    /\ UNCHANGED <<inputs, aux, x, z, i, echo, pik, pdb, amp, ret, files, run, first>>

\* get_aux: read_aux, read_rpb, splrep/splev of every channel onto xnew
GetAux ==
    /\ pc = "get_aux"
    /\ IF fail \in {"aux", "rpb"} \/ ~SplrepOk(aux_M)
       THEN Raise /\ UNCHANGED aux
       ELSE /\ aux' = [k \in 1..Shape1(rpb_file) |-> [rng |-> aux_range]]
            /\ pc' = "get_pik"
    /\ UNCHANGED <<inputs, srf_save, x, z, i, echo, pik, pdb, amp, ret, files, run, first>>

\* get_pik, lines 61-68: read the files, z, x, echo = zeros
ReadPik ==
    /\ pc = "get_pik"
    /\ IF fail = "pik"
       THEN Raise /\ UNCHANGED <<x, z, i, echo>>
       ELSE /\ z' = [j \in 1..Len(pik_file) |-> PikZ(pik_file[j])]
            /\ x' = [j \in 1..Len(pik_file) |-> PikX(pik_file[j])]
            /\ echo' = [j \in 1..Len(pik_file) |-> Zero]
            /\ i' = 1
            /\ pc' = "loop"
    /\ UNCHANGED <<inputs, srf_save, aux, pik, pdb, amp, ret, files, run, first>>

\* get_pik, lines 69-73: one iteration of the loop
PikLoop ==
    /\ pc = "loop"
    /\ i <= Len(x)
    /\ echo' = [echo EXCEPT ![i] = PikValue(rpb_file, z[i], x[i])]
    /\ i' = i + 1
    /\ UNCHANGED <<inputs, pc, srf_save, aux, x, z, pik, pdb, amp, ret, files, run, first>>

\* get_pik, lines 76-79: out = np.empty(...); out[x] = echo; return out
PikScatter ==
    /\ pc = "loop"
    /\ i > Len(x)
    /\ IF ~ScatterOk(OutLen(rpb_file, x), x)
       THEN Raise /\ UNCHANGED pik
       ELSE /\ \E out0 \in [1..OutLen(rpb_file, x) -> Garbage] :
                pik' = Scatter(out0, x, echo)
            /\ pc' = "calibrate"
    /\ UNCHANGED <<inputs, srf_save, aux, x, z, i, echo, pdb, amp, ret, files, run, first>>

\* get_srf, line 159: pdb = calibration(pik, rng=aux.rng.values)
Calibrate ==
    /\ pc = "calibrate"
    /\ LET r == [k \in 1..Len(aux) |-> aux[k].rng]
       IN  IF ~Broadcastable(pik, r)
           THEN Raise /\ UNCHANGED <<pik, pdb>>
           ELSE /\ pik' = [k \in 1..Len(pik) |-> ZeroScreen(pik[k])]
                /\ pdb' = Calibration(pik, r, AbsCalib)
                /\ pc' = "screen"
    /\ UNCHANGED <<inputs, srf_save, aux, x, z, i, echo, amp, ret, files, run, first>>

\* get_srf, lines 160-164: band screening, amplitude, aux['amp'] = amp
BandScreen ==
    /\ pc = "screen"
    /\ pdb' = [k \in 1..Len(pdb) |-> ScreenHigh(ScreenLow(pdb[k]))]
    /\ amp' = [k \in 1..Len(pdb) |-> Amplitude(pdb'[k])]
    /\ IF Len(pdb) # Len(aux)
       THEN Raise /\ UNCHANGED aux
       ELSE /\ aux' = [k \in 1..Len(aux) |-> [rng |-> aux[k].rng, amp |-> amp'[k]]]
            /\ pc' = "save"
    /\ UNCHANGED <<inputs, srf_save, x, z, i, echo, pik, ret, files, run, first>>

\* get_srf, lines 166-170: write the file if save is True, return aux
SaveSrf ==
    /\ pc = "save"
    /\ files' = IF srf_save = TRUE THEN files \cup {"srf.txt"} ELSE files
    /\ ret' = aux
    /\ pc' = IF entry = "inline_rsr" THEN "estim" ELSE "returned"
    /\ UNCHANGED <<inputs, srf_save, aux, x, z, i, echo, pik, pdb, amp, run, first>>

\* inline_rsr, lines 189-205: estimator, then the statistics file and the plot
InlineEstim ==
    /\ pc = "estim"
    /\ files' = IF save = TRUE THEN files \cup {"rsr.txt", "rsr.png"} ELSE files
    /\ pc' = "returned"
    /\ UNCHANGED <<inputs, locals, run, first>>

\* calibration(val, rng, abs_calib) called directly
CallCalibration ==
    /\ pc = "start"
    /\ entry = "calibration"
    /\ IF ~Broadcastable(pik, arg_rng)
       THEN Raise /\ UNCHANGED <<pik, pdb>>
       ELSE /\ pik' = [k \in 1..Len(pik) |-> ZeroScreen(pik[k])]
            /\ pdb' = Calibration(pik, arg_rng, arg_abs)
            /\ pc' = "returned"
    /\ UNCHANGED <<inputs, srf_save, aux, x, z, i, echo, amp, ret, files, run, first>>

\* get_srf run a second time on the same files
Rerun ==
    /\ pc = "returned"
    /\ entry = "get_srf"
    /\ run = 1
    /\ run' = 2
    /\ first' = ret
    /\ pc' = "start"
    /\ srf_save' = FALSE
    /\ aux' = <<>>
    /\ x' = <<>>
    /\ z' = <<>>
    /\ i' = 0
    /\ echo' = <<>>
    /\ pik' = <<>>
    /\ pdb' = <<>>
    /\ amp' = <<>>
    /\ ret' = <<>>
    /\ UNCHANGED <<inputs, files>>

Next ==
    \/ CallGetSrf
    \/ CallInlineRsr
    \/ GetAux
    \/ ReadPik
    \/ PikLoop
    \/ PikScatter
    \/ Calibrate
    \/ BandScreen
    \/ SaveSrf
    \/ InlineEstim
    \/ CallCalibration

NextTwice == Next \/ Rerun

Spec == Init /\ [][Next]_vars

SpecTwice == Init /\ [][NextTwice]_vars

\* ------------------------------------------------------------------ claims
Orbit == entry \in {"get_srf", "inline_rsr"}
AfterGetAux == pc \in {"get_pik", "loop", "calibrate", "screen", "save", "estim", "returned"}
AfterGetPik == pc \in {"calibrate", "screen", "save", "estim", "returned"}
AfterGetSrf == pc \in {"estim", "returned"}

\* record j is the last of the pick table at its along-track index
LastFor(j) ==
    \A h \in (j + 1)..Len(pik_file) : pik_file[h].frame # pik_file[j].frame

\* no record of the pick table has along-track index k (0-based)
Unpicked(k) == \A j \in 1..Len(pik_file) : pik_file[j].frame - 1 # k

\* round(delay_pixel) - 1 for a delay pixel given in halves, ties to even
ClaimZ(rec) ==
    LET h == rec.delay_pixel2
    IN  (IF h % 4 = 1 THEN (h - 1) \div 2
         ELSE IF h % 4 = 3 THEN (h + 1) \div 2
         ELSE h \div 2) - 1

\* the window [z-2, z+2) lies inside the delay samples [0, rows)
WindowInside(zz) == zz - 2 >= 0 /\ zz + 2 <= Shape0(rpb_file)

\* v is the maximum of the four samples z-2 .. z+1 of column c
IsMaxOfFour(v, zz, c) ==
    LET W == {rpb_file[<<r, c>>] : r \in (zz - 2)..(zz + 1)}
    IN  v \in W /\ \A w \in W : RawLeq(w, v)

\* C1: once get_aux, get_pik and get_srf have returned, every resampled
\* channel, the echo sequence and the returned table have exactly
\* rpb.shape[1] entries, for every pick table and every accepted number of
\* telemetry samples.
C1_ShapeInvariant ==
    Orbit =>
        /\ AfterGetAux => Len(aux) = Shape1(rpb_file)
        /\ AfterGetPik => Len(pik) = Shape1(rpb_file)
        /\ AfterGetSrf => Len(ret) = Shape1(rpb_file)

\* C1 witness: get_srf has returned a full-length table for an empty pick table
C1_Witness ==
    /\ entry = "get_srf"
    /\ pc = "returned"
    /\ pik_file = <<>>
    /\ Len(ret) = Cols
    /\ Len(pik) = Cols

\* a step in which calibration runs to its return
CalibrationStep ==
    \/ pc = "calibrate" /\ pc' = "screen"
    \/ entry = "calibration" /\ pc = "start" /\ pc' = "returned"

\* C2: every raw entry exactly equal to zero comes out of calibration as
\* NaN (never -inf), with or without a range and for every abs_calib.
C2_ZeroScreening ==
    [][CalibrationStep =>
        \A k \in 1..Len(pdb') : At(pik, k) = Zero => pdb'[k] = NaN]_vars

\* C2 witness: a direct call without range and with abs_calib = 0 returned
\* NaN for a zero entry (direct calls are given no NaN, so a NaN left in the
\* argument array is a screened zero)
C2_Witness ==
    /\ entry = "calibration"
    /\ pc = "returned"
    /\ arg_rng = NoRange
    /\ arg_abs = 0
    /\ \E k \in 1..Len(pdb) : pik[k] = NaN /\ pdb[k] = NaN

\* the step of get_srf that screens the band and attaches the amplitude
BandStep == pc = "screen" /\ pc' = "save"

\* C3 as stated: the amplitude is missing exactly when v <= -200 or v > 10.
C3_BandHalfOpen ==
    [][BandStep =>
        \A k \in 1..Len(pdb) :
            pdb[k].t = "db" =>
                ((aux'[k].amp = NaN) <=> (pdb[k].v <= -20000 \/ pdb[k].v > 1000))]_vars

\* C3 amended: the amplitude is missing exactly when the calibrated value
\* is missing, v < -200 or v > 10; a kept v gives the amplitude 10^(v/20).
C3_BandClosed ==
    [][BandStep =>
        \A k \in 1..Len(pdb) :
            /\ (aux'[k].amp = NaN) <=>
                  (pdb[k].t # "db" \/ pdb[k].v < -20000 \/ pdb[k].v > 1000)
            /\ aux'[k].amp # NaN => aux'[k].amp = Pos(pdb[k].v)]_vars

\* C3 witness: a calibrated value of exactly -200 dB was kept
C3_Witness ==
    /\ pc = "save"
    /\ \E k \in 1..Len(aux) : pdb[k] = Db(-20000) /\ aux[k].amp = Pos(-20000)

\* C4: in the returned table the amplitude is NaN at every along-track
\* index that has no record in the pick table.
C4_UnpickedMissing ==
    (Orbit /\ AfterGetSrf) =>
        \A k \in 1..Len(ret) : Unpicked(k - 1) => ret[k].amp = NaN

\* C5: a second run of get_srf on the same files returns the same table.
C5_Deterministic ==
    (run = 2 /\ pc = "returned") => ret = first

\* C6: when get_pik returns, every record whose window is not entirely
\* inside the matrix has left NaN at its index, and get_pik raises only for
\* an along-track index outside the matrix, never for a window.
C6_WindowOutsideMissing ==
    Orbit =>
        /\ pc = "calibrate" =>
              \A j \in 1..Len(pik_file) :
                  (LastFor(j) /\ ~WindowInside(ClaimZ(pik_file[j])))
                      => pik[pik_file[j].frame] = NaN
        /\ (pc = "raised" /\ i > 0) =>
              \E j \in 1..Len(pik_file) : pik_file[j].frame > Shape1(rpb_file)

\* C7: with fewer than 2 telemetry samples or a failing read, get_srf
\* raises at the read, returns no table and has written no file; the file
\* is written only as the last step.
C7_FaultAborts ==
    Orbit =>
        /\ (aux_M < 2 \/ fail \in {"aux", "rpb"}) => pc \in {"start", "get_aux", "raised"}
        /\ fail = "pik" => pc \in {"start", "get_aux", "get_pik", "raised"}
        /\ pc = "raised" => (files = {} /\ ret = <<>>)
        /\ "srf.txt" \in files => AfterGetSrf

\* C7 witness: a run asked to save raised on a single telemetry sample
C7_Witness ==
    /\ pc = "raised"
    /\ aux_M = 1
    /\ fail = "none"
    /\ save = TRUE
    /\ files = {}

\* C8 as stated: when get_pik returns, the output at the index of every
\* record whose window is inside the matrix is the maximum of the four
\* samples z-2 .. z+1 of its column.
C8_WindowMaxEvery ==
    (Orbit /\ pc = "calibrate") =>
        \A j \in 1..Len(pik_file) :
            WindowInside(ClaimZ(pik_file[j])) =>
                IsMaxOfFour(pik[pik_file[j].frame], ClaimZ(pik_file[j]),
                            pik_file[j].frame - 1)

\* C8 amended: the same, for every such record that is the last of the
\* pick table at its along-track index.
C8_WindowMaxLast ==
    (Orbit /\ pc = "calibrate") =>
        \A j \in 1..Len(pik_file) :
            (LastFor(j) /\ WindowInside(ClaimZ(pik_file[j]))) =>
                IsMaxOfFour(pik[pik_file[j].frame], ClaimZ(pik_file[j]),
                            pik_file[j].frame - 1)

\* C8 witness: the output is the sample at z+1 where the sample at z+2 is
\* larger
C8_Witness ==
    /\ pc = "calibrate"
    /\ \E j \in 1..Len(pik_file) :
        LET zz == ClaimZ(pik_file[j])
            c == pik_file[j].frame - 1
        IN  /\ LastFor(j)
            /\ WindowInside(zz)
            /\ zz + 2 < Shape0(rpb_file)
            /\ pik[c + 1] = rpb_file[<<zz + 1, c>>]
            /\ ~RawLeq(rpb_file[<<zz + 2, c>>], pik[c + 1])

\* C9: when get_pik returns, the output has rpb.shape[1] entries and holds,
\* at the index of every record, the echo of the last record of the pick
\* table with that index.
C9_LastWriteWins ==
    (Orbit /\ pc = "calibrate") =>
        /\ Len(pik) = Shape1(rpb_file)
        /\ \A j \in 1..Len(pik_file) :
              LastFor(j) => pik[pik_file[j].frame] = echo[j]

\* C9 witness: two records share an index, their echoes differ, the second
\* one is in the output
C9_Witness ==
    /\ pc = "calibrate"
    /\ Len(pik_file) >= 2
    /\ pik_file[1].frame = pik_file[2].frame
    /\ LastFor(2)
    /\ echo[1] # echo[2]
    /\ echo[1].t = "pos"
    /\ echo[2].t = "pos"
    /\ pik[pik_file[2].frame] = echo[2]

\* C10: get_srf writes the aligned-track file exactly when save is True;
\* inline_rsr always has it written, and its save argument decides only the
\* statistics file and the plot.
C10_Persistence ==
    /\ (entry = "get_srf" /\ pc = "returned") =>
          files = (IF save THEN {"srf.txt"} ELSE {})
    /\ (entry = "inline_rsr" /\ pc = "estim") => files = {"srf.txt"}
    /\ (entry = "inline_rsr" /\ pc = "returned") =>
          files = {"srf.txt"} \cup (IF save THEN {"rsr.txt", "rsr.png"} ELSE {})

\* C10 witness: inline_rsr with save=False returned and only the
\* aligned-track file exists
C10_Witness ==
    /\ entry = "inline_rsr"
    /\ pc = "returned"
    /\ save = FALSE
    /\ files = {"srf.txt"}

=============================================================================
